---- MODULE Spec2Model ----
(***************************************************************************)
(* md-to-confluence: a Pandoc markdown document is converted and posted to *)
(* a Confluence page; the document's YAML metadata block keeps the link to *)
(* the page (page-url) and the version last written (page-version).        *)
(*                                                                         *)
(* Text is modelled as a sequence of tokens (TLA+ strings), a document as  *)
(* a sequence of lines, the remote service as a table of pages.  Python's  *)
(* None is the token sequence None.                                        *)
(***************************************************************************)
EXTENDS Integers, Sequences, FiniteSets, TLC

\* ------------------------------------------------------------------ bounds
\* Invocations of main(), over all documents.
MaxRuns == 3
\* Page ids the remote service can hand out.
MaxPages == 3

\* The documents; each is synchronised by invocations of main() of its own,
\* and the invocations on different documents interleave.
Procs == {1, 2}
PageIds == 1 .. MaxPages

None == <<"None">>

\* ------------------------------------------------------ generic helpers
RECURSIVE IndexOf(_, _, _)
\* The first index >= i of token t in sequence s, 0 when there is none.
IndexOf(s, t, i) ==
    IF i > Len(s) THEN 0
    ELSE IF s[i] = t THEN i
    ELSE IndexOf(s, t, i + 1)

Last(s) == s[Len(s)]

\* ------------------------------------------------------- document lines
\* md_to_confluence.py reads the file with readlines(); a line is one of
\*   "---"      the block-open token, also a terminator spelling
\*   "..."      the other terminator spelling
\*   "scalar"   `key: value` of the YAML block (ind = nesting depth)
\*   "mapping"  `key:` opening a nested block mapping
\*   "comment"  a YAML comment line
\*   "text"     a line of the markdown body
\* style is the spelling of a scalar: "plain", "single" or "double" quoted.
MkLine(kind, ind, key, val, style) ==
    [kind |-> kind, ind |-> ind, key |-> key, val |-> val, style |-> style]

DashLine == MkLine("---", 0, "", <<>>, "")
DotsLine == MkLine("...", 0, "", <<>>, "")
Scalar(ind, key, val, style) == MkLine("scalar", ind, key, val, style)
Mapping(key) == MkLine("mapping", 0, key, <<>>, "")
CommentLine(text) == MkLine("comment", 0, "", text, "")
TextLine(text) == MkLine("text", 0, "", text, "")

\* The module constants naming the keys of the `confluence` section.
CONFLUENCE == "confluence"
CONFLUENCE_BASE_URL == "base-url"
CONFLUENCE_PAGE_URL == "page-url"
CONFLUENCE_PAGE_VERSION == "page-version"

\* ------------------------------------------------------------- PyYAML
\* A loaded mapping is a Python dict: a sequence of items in insertion
\* order.  An item is a scalar (val) or a nested mapping (sub).
Item(key, val) == [key |-> key, val |-> val, isMap |-> FALSE, sub |-> <<>>]
MapItem(key, sub) == [key |-> key, val |-> <<>>, isMap |-> TRUE, sub |-> sub]

DictHas(d, k) == \E i \in 1 .. Len(d) : d[i].key = k

DictGet(d, k) == d[CHOOSE i \in 1 .. Len(d) : d[i].key = k]

\* d[k] = item: an existing key keeps its position, a new key goes last.
DictSet(d, item) ==
    IF DictHas(d, item.key)
    THEN [i \in 1 .. Len(d) |-> IF d[i].key = item.key THEN item ELSE d[i]]
    ELSE Append(d, item)

\* d.pop(k, None)
DictPop(d, k) == SelectSeq(d, LAMBDA it : it.key # k)

\* The order of Python's sorted() on the key strings the model uses
\* (code point order).
KeyRank(k) ==
    CASE k = "base-url" -> 1
      [] k = "confluence" -> 2
      [] k = "date" -> 3
      [] k = "note-autogen" -> 4
      [] k = "page-url" -> 5
      [] k = "page-version" -> 6
      [] k = "title" -> 7
      [] k = "user-name" -> 8
      [] OTHER -> 9

RECURSIVE InsertSorted(_, _)
InsertSorted(sorted, it) ==
    IF sorted = <<>> THEN <<it>>
    ELSE IF KeyRank(it.key) < KeyRank(Head(sorted).key)
         THEN <<it>> \o sorted
         ELSE <<Head(sorted)>> \o InsertSorted(Tail(sorted), it)

RECURSIVE SortedItems(_)
SortedItems(d) ==
    IF d = <<>> THEN <<>>
    ELSE InsertSorted(SortedItems(Tail(d)), Head(d))

RECURSIVE LoadLines(_, _)
\* yaml.safe_load: comments and the spelling of scalars are not part of the
\* loaded value; an indented entry belongs to the mapping opened last.
LoadLines(ls, acc) ==
    IF ls = <<>> THEN acc
    ELSE LET l == Head(ls) IN
         IF l.kind = "comment" THEN LoadLines(Tail(ls), acc)
         ELSE IF l.kind = "mapping"
              THEN LoadLines(Tail(ls), DictSet(acc, MapItem(l.key, <<>>)))
         ELSE IF l.ind = 0
              THEN LoadLines(Tail(ls), DictSet(acc, Item(l.key, l.val)))
         ELSE LET m == Last(acc) IN
              LoadLines(Tail(ls),
                  DictSet(acc, MapItem(m.key, DictSet(m.sub, Item(l.key, l.val)))))

yaml_safe_load(metadata_content) == LoadLines(metadata_content, <<>>)

\* The order in which represent_mapping emits the items of a mapping.
\* yaml_preserve_order registers its constructor on yaml.Loader only, so
\* yaml.safe_load (SafeLoader) returns plain dicts, and the Dumper sorts the
\* items of a plain dict by key.
DumpOrder(d) == SortedItems(d)

RECURSIVE DumpItems(_, _)
DumpItems(d, ind) ==
    IF d = <<>> THEN <<>>
    ELSE LET it == Head(d) IN
         (IF it.isMap
          THEN <<Mapping(it.key)>> \o DumpItems(DumpOrder(it.sub), ind + 1)
          ELSE <<Scalar(ind, it.key, it.val, "plain")>>)
         \o DumpItems(Tail(d), ind)

\* yaml.dump(metadata, fd, default_flow_style=False, allow_unicode=True):
\* block style, plain scalars.
yaml_dump(metadata) == DumpItems(DumpOrder(metadata), 0)

\* ------------------------------------------------- load and store a file
\* A file is [bom, lines]: opened with utf_8_sig a leading byte order mark
\* is skipped; the rewrite encodes utf_8 and writes none.
MkFile(bom, lines) == [bom |-> bom, lines |-> lines]

IsTerminator(l) == l.kind \in {"...", "---"}

RECURSIVE EndIndexOrLast(_, _)
\* The index of the first terminator line at or after i, and the last line
\* when the lines run out first.
EndIndexOrLast(ls, i) ==
    IF i > Len(ls) THEN Len(ls)
    ELSE IF IsTerminator(ls[i]) THEN i
    ELSE EndIndexOrLast(ls, i + 1)

RECURSIVE EndIndex(_, _)
\* The index of the first terminator line at or after i, 0 when the lines
\* run out first.
EndIndex(ls, i) ==
    IF i > Len(ls) THEN 0
    ELSE IF IsTerminator(ls[i]) THEN i
    ELSE EndIndex(ls, i + 1)

\* main, lines 41-60: ok = FALSE stands for the two raised exceptions.
LoadDocument(f) ==
    LET ls == f.lines
        e == IF Len(ls) > 0 /\ ls[1].kind = "---" THEN EndIndex(ls, 2) ELSE 0
    IN  IF e = 0
        THEN [ok |-> FALSE, metadata |-> <<>>, metadata_end_line |-> DashLine,
              lines |-> <<>>]
        ELSE [ok |-> TRUE,
              metadata |-> yaml_safe_load(SubSeq(ls, 2, e - 1)),
              metadata_end_line |-> ls[e],
              lines |-> SubSeq(ls, e + 1, Len(ls))]

\* main, lines 164-169: everything written to the temporary file, in the
\* order of the writes.
StoreChunks(metadata, metadata_end_line, lines) ==
    << <<DashLine>>, yaml_dump(metadata), <<metadata_end_line>>, lines >>

StoredFile(metadata, metadata_end_line, lines) ==
    LET c == StoreChunks(metadata, metadata_end_line, lines)
    IN  MkFile(FALSE, c[1] \o c[2] \o c[3] \o c[4])

\* --------------------------------------------------------------- URLs
\* A URL is text: <<"https:", "//", "jsmith", "@", "wiki", "/", "confluence",
\* "/", "display", "/", "SP", "/", "Release", "+", "notes">>.
Digits == <<"1", "2", "3", "4", "5", "6", "7", "8", "9">>

\* str(n) of a small positive integer.
StrOf(n) == Digits[n]

\* int(t): 0 stands for the ValueError of a token that is no number.
IntOf(t) == IndexOf(Digits, t, 1)

RECURSIVE quote_plus(_)
\* urllib.parse.quote_plus, as the service applies it to a space key or a
\* title of a display link.
quote_plus(text) ==
    IF text = <<>> THEN <<>>
    ELSE LET c == Head(text) IN
         <<CASE c = " " -> "+"
             [] c = "+" -> "%2B"
             [] c = "/" -> "%2F"
             [] OTHER -> c>> \o quote_plus(Tail(text))

\* No decoding at all.
unquote_plusRaw(text) == text

RECURSIVE unquote_plus(_)
\* urllib.parse.unquote_plus: "+" is a space, %XX is the character.
unquote_plus(text) ==
    IF text = <<>> THEN <<>>
    ELSE LET c == Head(text) IN
         <<CASE c = "+" -> " "
             [] c = "%2B" -> "+"
             [] c = "%2F" -> "/"
             [] c = "%20" -> " "
             [] OTHER -> c>> \o unquote_plus(Tail(text))

\* urllib.parse.urlsplit on <scheme> // <netloc> <path> ? <query>.
urlsplit(urlstr) ==
    LET q == IndexOf(urlstr, "?", 3)
        stop == IF q = 0 THEN Len(urlstr) + 1 ELSE q
        sl == IndexOf(urlstr, "/", 3)
        pathStart == IF sl = 0 \/ sl > stop THEN stop ELSE sl
        netloc == SubSeq(urlstr, 3, pathStart - 1)
        at == IndexOf(netloc, "@", 1)
    IN  [scheme |-> urlstr[1],
         netloc |-> netloc,
         path |-> SubSeq(urlstr, pathStart, stop - 1),
         query |-> SubSeq(urlstr, stop + 1, Len(urlstr)),
         username |-> IF at = 0 THEN None ELSE SubSeq(netloc, 1, at - 1),
         host |-> SubSeq(netloc, at + 1, Len(netloc))]

RECURSIVE Segments(_, _)
\* The non-empty runs of tokens between the "/" of a path; cur is the run
\* being read.
Segments(path, cur) ==
    IF path = <<>> THEN (IF cur = <<>> THEN <<>> ELSE <<cur>>)
    ELSE IF Head(path) = "/"
         THEN (IF cur = <<>> THEN <<>> ELSE <<cur>>) \o Segments(Tail(path), <<>>)
         ELSE Segments(Tail(path), Append(cur, Head(path)))

\* pathlib.PurePosixPath(path).parts: the root, then the components.
PathParts(path) ==
    (IF path # <<>> /\ Head(path) = "/" THEN << <<"/">> >> ELSE <<>>)
    \o Segments(path, <<>>)

RECURSIVE JoinParts(_)
\* str() of the path made of the components, each after a "/".
JoinParts(segs) ==
    IF segs = <<>> THEN <<>>
    ELSE <<"/">> \o Head(segs) \o JoinParts(Tail(segs))

\* The path with none of its components taken off.
ParentPathWhole(parts, n) == JoinParts(SubSeq(parts, 2, Len(parts)))

\* str(path.parents[n - 1]).rstrip('/') for parts that begin with the root:
\* the path without its last n components ("/" alone strips to nothing).
ParentPath(parts, n) == JoinParts(SubSeq(parts, 2, Len(parts) - n))

RECURSIVE RStripSlash(_)
\* str.rstrip('/')
RStripSlash(path) ==
    IF path # <<>> /\ Last(path) = "/"
    THEN RStripSlash(SubSeq(path, 1, Len(path) - 1))
    ELSE path

\* urllib.parse.parse_qs(url.query)['pageId'][0], None for the KeyError.
QueryPageId(query) ==
    LET i == IndexOf(query, "pageId", 1)
    IN  IF i # 0 /\ i + 2 <= Len(query) /\ query[i + 1] = "="
        THEN query[i + 2] ELSE "None"

\* urllib.parse.urlunsplit((scheme, netloc, basePath, None, None))
urlunsplit(scheme, netloc, basePath) == <<scheme, "//">> \o netloc \o basePath

\* A page URL of no known shape taken for the base URL it begins with.
ParseReferenceGuess(confluenceMetadata) ==
    LET key == IF DictHas(confluenceMetadata, CONFLUENCE_PAGE_URL)
               THEN CONFLUENCE_PAGE_URL ELSE CONFLUENCE_BASE_URL
        url == urlsplit(DictGet(confluenceMetadata, key).val)
        basePath == RStripSlash(url.path)
    IN  [ok |-> TRUE, username |-> url.username, pageId |-> 0,
         spaceKey |-> None, title |-> None,
         baseUrlWithUsername |-> urlunsplit(url.scheme, url.netloc, basePath),
         baseUrl |-> urlunsplit(url.scheme, url.host, basePath)]

\* main, lines 66-102: the reference the `confluence` section holds.
\* ok = FALSE stands for the raised exceptions; pageId = 0 is None.
ParseReference(confluenceMetadata) ==
    LET bad == [ok |-> FALSE, username |-> None, pageId |-> 0,
                spaceKey |-> None, title |-> None,
                baseUrlWithUsername |-> <<>>, baseUrl |-> <<>>]
    IN
    IF DictHas(confluenceMetadata, CONFLUENCE_PAGE_URL)
    THEN LET urlstr == DictGet(confluenceMetadata, CONFLUENCE_PAGE_URL).val
             url == urlsplit(urlstr)
             parts == PathParts(url.path)
             plen == Len(parts)
         IN  IF plen >= 4 /\ parts[plen - 2] = <<"display">>
             THEN LET basePath == ParentPath(parts, 3) IN
                  [ok |-> TRUE, username |-> url.username, pageId |-> 0,
                   spaceKey |-> unquote_plus(parts[plen - 1]),
                   title |-> unquote_plus(parts[plen]),
                   baseUrlWithUsername |-> urlunsplit(url.scheme, url.netloc, basePath),
                   baseUrl |-> urlunsplit(url.scheme, url.host, basePath)]
             ELSE IF plen >= 3 /\ parts[plen - 1] = <<"pages">>
                               /\ parts[plen] = <<"viewpage.action">>
             THEN LET basePath == ParentPath(parts, 2)
                      id == IntOf(QueryPageId(url.query))
                  IN  IF id = 0 THEN bad
                      ELSE [ok |-> TRUE, username |-> url.username, pageId |-> id,
                            spaceKey |-> None, title |-> None,
                            baseUrlWithUsername |-> urlunsplit(url.scheme, url.netloc, basePath),
                            baseUrl |-> urlunsplit(url.scheme, url.host, basePath)]
             ELSE bad
    ELSE IF DictHas(confluenceMetadata, CONFLUENCE_BASE_URL)
    THEN LET urlstr == DictGet(confluenceMetadata, CONFLUENCE_BASE_URL).val
             url == urlsplit(urlstr)
             basePath == RStripSlash(url.path)
         IN  [ok |-> TRUE, username |-> url.username, pageId |-> 0,
              spaceKey |-> None, title |-> None,
              baseUrlWithUsername |-> urlunsplit(url.scheme, url.netloc, basePath),
              baseUrl |-> urlunsplit(url.scheme, url.host, basePath)]
    ELSE bad

\* ------------------------------------------------------ the remote service
\* A page of the service; exists = FALSE is an id not handed out yet.
NoPage == [exists |-> FALSE, space |-> None, title |-> None, ver |-> 0,
           anc |-> <<>>, body |-> <<>>]

\* Characters a display link can carry; a title with any other character
\* gets a view-by-id link.
DisplaySafe(text) == \A i \in 1 .. Len(text) : text[i] \notin {"+", "/", "?", "&"}

\* _links.webui of a page.
WebUi(id, pg) ==
    IF DisplaySafe(pg.title)
    THEN <<"/", "display", "/">> \o quote_plus(pg.space) \o <<"/">> \o quote_plus(pg.title)
    ELSE <<"/", "pages", "/", "viewpage.action", "?", "pageId", "=", StrOf(id)>>

\* The JSON of a page, expanded with version, ancestors and space.
NoInfo == [id |-> 0, title |-> None, space |-> None, version |-> 0,
           ancestors |-> <<>>, webui |-> <<>>]

PageInfo(tbl, id) ==
    [id |-> id, title |-> tbl[id].title, space |-> tbl[id].space,
     version |-> tbl[id].ver, ancestors |-> tbl[id].anc,
     webui |-> WebUi(id, tbl[id])]

Matches(tbl, spaceKey, title) ==
    {id \in PageIds : tbl[id].exists /\ tbl[id].space = spaceKey /\ tbl[id].title = title}

RECURSIVE SetToSeq(_)
\* The ids of a set in increasing order.
SetToSeq(S) ==
    IF S = {} THEN <<>>
    ELSE LET m == CHOOSE x \in S : \A y \in S : x <= y
         IN  <<m>> \o SetToSeq(S \ {m})

\* The status the service answers a page update with: the version submitted
\* must be the successor of the stored one (409), the page must exist (404),
\* more than the parent as ancestors is refused, and so is a title another
\* page of the space carries (400).
PutStatus(tbl, req) ==
    IF ~tbl[req.id].exists THEN 404
    ELSE IF req.ver # tbl[req.id].ver + 1 THEN 409
    ELSE IF Len(req.anc) > 1 THEN 400
    ELSE IF Matches(tbl, tbl[req.id].space, req.title) \ {req.id} # {} THEN 400
    ELSE 200

PutEffect(tbl, req) ==
    [tbl EXCEPT ![req.id].title = req.title, ![req.id].ver = req.ver,
                ![req.id].body = req.body]

FreeIds(tbl) == {id \in PageIds : ~tbl[id].exists}

PostStatus(tbl, req) ==
    IF Matches(tbl, req.space, req.title) # {} THEN 400 ELSE 200

NewId(tbl) == CHOOSE id \in FreeIds(tbl) : \A o \in FreeIds(tbl) : id <= o

\* A created page is version 1, under the home page of its space.
PostEffect(tbl, req) ==
    [tbl EXCEPT ![NewId(tbl)] =
        [exists |-> TRUE, space |-> req.space, title |-> req.title, ver |-> 1,
         anc |-> <<7>>, body |-> req.body]]

\* The status any request can fail with, whatever it asks: a refused
\* credential.
AnyFailure == {401}

\* ------------------------------------------------------------ requests
\* One record per request sent, with the status of its response: ver is the
\* version submitted, rver the version the response carries, n the number of
\* results of a query, id the page asked for, returned or created, and anc
\* the ancestors submitted (PUT) or returned (GET).
Req(method, target) ==
    [method |-> method, target |-> target, id |-> 0, ver |-> 0, title |-> None,
     space |-> None, anc |-> <<>>, body |-> <<>>, n |-> 0, rver |-> 0,
     status |-> 0]

\* The storage format pandoc makes of document p.
Content(p) == <<"csf", StrOf(p)>>

\* Confluence.edit_page, lines 120-141: the PUT it sends for a fetched page.
EditVersionStale(info) == info.version

EditVersion(info) == info.version + 1

EditAncestorsFull(info) == info.ancestors

EditAncestors(info) ==
    IF Len(info.ancestors) # 0 THEN <<Last(info.ancestors)>> ELSE <<>>

\* The title of the fetched page submitted whatever the new title.
EditTitleKept(info, title) == info.title

\* edit_page, lines 122-123: the title submitted.
EditTitle(info, title) == IF title = None THEN info.title ELSE title

EditRequest(info, title, content) ==
    [Req("PUT", "page") EXCEPT
        !.id = info.id,
        !.title = EditTitle(info, title),
        !.ver = EditVersion(info),
        !.anc = EditAncestors(info),
        !.body = content]

\* Confluence.edit_page, lines 129-144: what it returns is the page info of
\* the response, which replaces the info it was given.
EditResultGiven(response, info) == info

EditResult(response, info) == response

\* Confluence.create_page, lines 100-110: the POST it sends.
CreateRequest(spaceKey, title, content) ==
    [Req("POST", "page") EXCEPT !.space = spaceKey, !.title = title, !.body = content]

\* ------------------------------------------------------------------ state
VARIABLES
    pages,      \* the service: page id -> page
    atts,       \* the service: <<page id, document>> -> attachment records
                \* carrying the name of the document's file
    keyring,    \* whether the keyring stores a password for the user
    file,       \* document -> the file at the document's path
    tmp,        \* document -> the temporary file of the rewrite under way
    pc,         \* document -> where its invocation of main() stands
    loc,        \* document -> the local variables of main() and post_page
    reqs,       \* document -> the requests its invocation has sent so far
    file0,      \* document -> the file as the invocation found it
    nruns,      \* invocations started so far
    written     \* document -> the page info its last completed rewrite recorded

vars == <<pages, atts, keyring, file, tmp, pc, loc, reqs, file0, nruns, written>>

NoFile == [exists |-> FALSE, lines |-> <<>>]

NoLoc == [pageId |-> 0, spaceKey |-> None, title |-> None, newTitle |-> None,
          username |-> None, baseUrlWithUsername |-> <<>>, baseUrl |-> <<>>,
          metadata |-> <<>>, metadata_end_line |-> DashLine, lines |-> <<>>,
          info |-> NoInfo, createTitle |-> None, asked |-> FALSE, answer |-> "",
          chunk |-> 0, upload |-> "", status |-> 0, outcome |-> "", prior |-> NoInfo]

\* getpass.getuser()
OsUser == <<"jsmith">>

\* Where an invocation of main() has ended.
Ended == {"done", "failed", "crashed"}

\* ------------------------------------------------------ the documents
T1 == <<"Notes">>
T2 == <<"Release", " ", "notes">>
T3 == <<"C", "+", "+">>
Home == <<"~">> \o OsUser

BaseUrl == <<"https:", "//", "jsmith", "@", "wiki", "/", "confluence">>
BareBaseUrl == <<"https:", "//", "wiki", "/">>
DisplayUrl(title) ==
    BaseUrl \o <<"/", "display", "/">> \o quote_plus(Home) \o <<"/">> \o quote_plus(title)
ViewUrl(id) ==
    BaseUrl \o <<"/", "pages", "/", "viewpage.action", "?", "pageId", "=", StrOf(id)>>

\* A document: title first, then the confluence section, then a key main()
\* never reads.
Document(title, conf, end) ==
    MkFile(FALSE,
        <<DashLine>>
        \o (IF title = None THEN <<>> ELSE <<Scalar(0, "title", title, "plain")>>)
        \o <<Mapping(CONFLUENCE)>> \o conf
        \o <<Scalar(0, "date", <<"2017">>, "plain"), end,
             TextLine(<<"# Heading">>), TextLine(<<"text">>)>>)

NewTitles == {None, T1, T3}

Sections ==
    { <<Scalar(1, CONFLUENCE_BASE_URL, BareBaseUrl, "plain")>>,
      <<Scalar(1, CONFLUENCE_PAGE_URL, DisplayUrl(T1), "plain"),
        Scalar(1, CONFLUENCE_PAGE_VERSION, <<"9">>, "plain")>>,
      <<Scalar(1, CONFLUENCE_PAGE_URL, ViewUrl(1), "plain")>> }

Documents1 == {Document(t, c, DotsLine) : t \in NewTitles, c \in Sections}

Documents2 ==
    { Document(None, <<Scalar(1, CONFLUENCE_PAGE_URL, DisplayUrl(T1), "plain")>>, DashLine),
      Document(T2, <<Scalar(1, CONFLUENCE_PAGE_URL, ViewUrl(1), "plain")>>, DashLine) }

Page(title, ver, anc) ==
    [exists |-> TRUE, space |-> Home, title |-> title, ver |-> ver, anc |-> anc,
     body |-> <<"old">>]

PageTable(p1, p2) ==
    [id \in PageIds |-> IF id = 1 THEN p1 ELSE IF id = 2 THEN p2 ELSE NoPage]

\* The page the documents point at; with it another page of the same title,
\* or none; or the page under another title.
InitialPages ==
    { PageTable(Page(T1, 2, <<7, 8, 9>>), NoPage),
      PageTable(Page(T1, 2, <<7, 8, 9>>), Page(T1, 1, <<7>>)),
      PageTable(Page(T2, 1, <<>>), NoPage) }

Init ==
    /\ pages \in InitialPages
    /\ atts = [k \in PageIds \X Procs |-> 0]
    /\ keyring = TRUE
    /\ file \in {[p \in Procs |-> IF p = 1 THEN d1 ELSE d2] :
                    d1 \in Documents1, d2 \in Documents2}
    /\ tmp = [p \in Procs |-> NoFile]
    /\ pc = [p \in Procs |-> "idle"]
    /\ loc = [p \in Procs |-> NoLoc]
    /\ reqs = [p \in Procs |-> <<>>]
    /\ file0 = file
    /\ nruns = 0
    /\ written = [p \in Procs |-> NoInfo]

\* --------------------------------------------------------------- main()
\* authenticate(): the keyring after the prompts.  A password typed, or none
\* stored, asks whether to save: yes stores it, no deletes a stored one.
Authenticated(stored, typed, save) ==
    IF typed \/ ~stored THEN save ELSE stored

\* main, lines 38-141: read the file, take the reference from the metadata
\* block, convert, and ask for the credential.  An exception ends the run.
Start(p) ==
    /\ pc[p] \in Ended \cup {"idle"}
    /\ nruns < MaxRuns
    /\ nruns' = nruns + 1
    /\ file0' = [file0 EXCEPT ![p] = file[p]]
    /\ reqs' = [reqs EXCEPT ![p] = <<>>]
    /\ tmp' = [tmp EXCEPT ![p] = NoFile]
    /\ \E d \in {LoadDocument(file[p])} :
       LET hasConf == d.ok /\ DictHas(d.metadata, CONFLUENCE)
                           /\ DictGet(d.metadata, CONFLUENCE).isMap
       IN
       \E ref \in {IF hasConf
                    THEN ParseReference(DictGet(d.metadata, CONFLUENCE).sub)
                    ELSE [ok |-> FALSE]} :
           IF ~hasConf \/ ~ref.ok
           THEN /\ pc' = [pc EXCEPT ![p] = "failed"]
                /\ loc' = [loc EXCEPT ![p] = [NoLoc EXCEPT !.outcome = "Exception",
                                                            !.prior = written[p]]]
                /\ UNCHANGED keyring
           ELSE LET username == IF ref.username = None THEN OsUser ELSE ref.username
                IN  /\ pc' = [pc EXCEPT ![p] = "post_page"]
                    /\ loc' = [loc EXCEPT ![p] =
                          [NoLoc EXCEPT
                             !.pageId = ref.pageId,
                             !.spaceKey = IF ref.spaceKey = None
                                          THEN <<"~">> \o username ELSE ref.spaceKey,
                             !.title = ref.title,
                             !.newTitle = IF DictHas(d.metadata, "title")
                                          THEN DictGet(d.metadata, "title").val ELSE None,
                             !.username = username,
                             !.baseUrlWithUsername = ref.baseUrlWithUsername,
                             !.baseUrl = ref.baseUrl,
                             !.metadata = d.metadata,
                             !.metadata_end_line = d.metadata_end_line,
                             !.lines = d.lines,
                             !.prior = written[p]]]
                    /\ \E typed \in BOOLEAN, save \in BOOLEAN :
                          keyring' = Authenticated(keyring, typed, save)
    /\ UNCHANGED <<pages, atts, file, written>>

\* A rejected PUT swallowed: the run goes on with the page info it fetched.
HTTPErrorSwallowed(p, req, st) ==
    /\ reqs' = [reqs EXCEPT ![p] = Append(@, [req EXCEPT !.status = st])]
    /\ keyring' = IF st = 401 THEN FALSE ELSE keyring
    /\ loc' = [loc EXCEPT ![p].status = st,
                          ![p].outcome = IF req.method = "PUT" THEN "Edited" ELSE "HTTPError"]
    /\ pc' = [pc EXCEPT ![p] = IF req.method = "PUT" THEN "update_metadata" ELSE "done"]
    /\ UNCHANGED <<pages, atts, file, tmp, file0, nruns, written>>

\* A version conflict answered by fetching the page again and retrying.
HTTPErrorRetry(p, req, st) ==
    /\ reqs' = [reqs EXCEPT ![p] = Append(@, [req EXCEPT !.status = st])]
    /\ keyring' = IF st = 401 THEN FALSE ELSE keyring
    /\ loc' = [loc EXCEPT ![p].status = st,
                          ![p].outcome = IF st = 409 THEN "" ELSE "HTTPError"]
    /\ pc' = [pc EXCEPT ![p] = IF st = 409 THEN "post_page" ELSE "done"]
    /\ UNCHANGED <<pages, atts, file, tmp, file0, nruns, written>>

\* An HTTPError that ends the run and leaves the keyring alone whatever the
\* status.
HTTPErrorKeepPassword(p, req, st) ==
    /\ reqs' = [reqs EXCEPT ![p] = Append(@, [req EXCEPT !.status = st])]
    /\ keyring' = keyring
    /\ loc' = [loc EXCEPT ![p].status = st, ![p].outcome = "HTTPError"]
    /\ pc' = [pc EXCEPT ![p] = "done"]
    /\ UNCHANGED <<pages, atts, file, tmp, file0, nruns, written>>

\* post_page, lines 74-77, and main, lines 146-153: an HTTPError deletes the
\* stored password when the status is 401, is printed, and ends the run.
HTTPError(p, req, st) ==
    /\ reqs' = [reqs EXCEPT ![p] = Append(@, [req EXCEPT !.status = st])]
    /\ keyring' = IF st = 401 THEN FALSE ELSE keyring
    /\ loc' = [loc EXCEPT ![p].status = st, ![p].outcome = "HTTPError"]
    /\ pc' = [pc EXCEPT ![p] = "done"]
    /\ UNCHANGED <<pages, atts, file, tmp, file0, nruns, written>>

\* post_page, lines 53-55, with get_page_info.
GetPageInfo(p) ==
    /\ pc[p] = "post_page"
    /\ loc[p].pageId # 0
    /\ LET id == loc[p].pageId
           found == id \in PageIds /\ pages[id].exists
           req == [Req("GET", "page") EXCEPT !.id = id]
       IN  \E st \in {IF found THEN 200 ELSE 404} \cup AnyFailure :
              IF st = 200
              THEN /\ reqs' = [reqs EXCEPT ![p] = Append(@,
                          [req EXCEPT !.status = 200, !.rver = pages[id].ver, !.n = 1,
                                      !.anc = pages[id].anc])]
                   /\ loc' = [loc EXCEPT ![p].info = PageInfo(pages, id)]
                   /\ pc' = [pc EXCEPT ![p] = "edit_page"]
                   /\ UNCHANGED <<pages, atts, keyring, file, tmp, file0, nruns, written>>
              ELSE HTTPError(p, req, st)

\* Which way post_page goes on the pages a title query returned.
ResolveFirst(res) ==
    IF Len(res) = 0 THEN "none" ELSE "edit"

Resolve(res) ==
    IF Len(res) = 0 THEN "none"
    ELSE IF Len(res) = 1 THEN "edit"
    ELSE "raise"

\* The offer to create made for every title that was not found.
OffersCreateAlways(title, newTitle) == TRUE

\* post_page, line 60: a title that was not found is offered for creation
\* only when it is the new title.
OffersCreate(title, newTitle) == title = newTitle

\* post_page, lines 56-70, with find_pages_by_title.
FindPagesByTitle(p) ==
    /\ pc[p] = "post_page"
    /\ loc[p].pageId = 0
    /\ loc[p].spaceKey # None /\ loc[p].title # None
    /\ LET res == SetToSeq(Matches(pages, loc[p].spaceKey, loc[p].title))
           req == [Req("GET", "search") EXCEPT
                      !.space = loc[p].spaceKey, !.title = loc[p].title]
           way == Resolve(res)
       IN  \E st \in {200} \cup AnyFailure :
              IF st # 200 THEN HTTPError(p, req, st)
              ELSE /\ reqs' = [reqs EXCEPT ![p] = Append(@,
                          [req EXCEPT !.status = 200, !.n = Len(res),
                                      !.id = IF res = <<>> THEN 0 ELSE res[1],
                                      !.rver = IF res = <<>> THEN 0 ELSE pages[res[1]].ver,
                                      !.anc = IF res = <<>> THEN <<>> ELSE pages[res[1]].anc])]
                   /\ IF way = "edit"
                      THEN /\ loc' = [loc EXCEPT ![p].info = PageInfo(pages, res[1])]
                           /\ pc' = [pc EXCEPT ![p] = "edit_page"]
                      ELSE IF way = "raise"
                      THEN /\ loc' = [loc EXCEPT ![p].outcome = "Exception"]
                           /\ pc' = [pc EXCEPT ![p] = "failed"]
                      ELSE IF OffersCreate(loc[p].title, loc[p].newTitle)
                      THEN /\ loc' = [loc EXCEPT ![p].asked = TRUE]
                           /\ pc' = [pc EXCEPT ![p] = "ask_create"]
                      ELSE /\ loc' = [loc EXCEPT ![p].outcome = "None"]
                           /\ pc' = [pc EXCEPT ![p] = "done"]
                   /\ UNCHANGED <<pages, atts, keyring, file, tmp, file0, nruns, written>>

\* What the operator can type at `Do you want to create it? [y/N]: `.
Answers == {"y", "Y", "n", ""}

\* str.lower()
Lower(a) == IF a = "Y" THEN "y" ELSE a

\* post_page, line 63: the answer that goes on to create the page.
AcceptsUnlessNo(answer) == Lower(answer) # "n"

Accepts(answer) == Lower(answer) = "y"

\* post_page, lines 61-65.
AskCreate(p) ==
    /\ pc[p] = "ask_create"
    /\ \E answer \in Answers :
          IF Accepts(answer)
          THEN /\ loc' = [loc EXCEPT ![p].createTitle = loc[p].title,
                                     ![p].answer = answer]
               /\ pc' = [pc EXCEPT ![p] = "create_page"]
          ELSE /\ loc' = [loc EXCEPT ![p].outcome = "None", ![p].answer = answer]
               /\ pc' = [pc EXCEPT ![p] = "done"]
    /\ UNCHANGED <<pages, atts, keyring, file, tmp, reqs, file0, nruns, written>>

\* post_page, lines 71-72.
PostPageCreate(p) ==
    /\ pc[p] = "post_page"
    /\ loc[p].pageId = 0
    /\ ~(loc[p].spaceKey # None /\ loc[p].title # None)
    /\ loc[p].spaceKey # None /\ loc[p].newTitle # None
    /\ loc' = [loc EXCEPT ![p].createTitle = loc[p].newTitle]
    /\ pc' = [pc EXCEPT ![p] = "create_page"]
    /\ UNCHANGED <<pages, atts, keyring, file, tmp, reqs, file0, nruns, written>>

\* post_page falls off its if-chain and returns None; main, lines 155-156.
PostPageNothing(p) ==
    /\ pc[p] = "post_page"
    /\ loc[p].pageId = 0
    /\ ~(loc[p].spaceKey # None /\ loc[p].title # None)
    /\ ~(loc[p].spaceKey # None /\ loc[p].newTitle # None)
    /\ loc' = [loc EXCEPT ![p].outcome = "None"]
    /\ pc' = [pc EXCEPT ![p] = "done"]
    /\ UNCHANGED <<pages, atts, keyring, file, tmp, reqs, file0, nruns, written>>

\* Confluence.edit_page: the PUT, and the page info of its response.
EditPage(p) ==
    /\ pc[p] = "edit_page"
    /\ LET req == EditRequest(loc[p].info, loc[p].newTitle, Content(p))
       IN  \E st \in {PutStatus(pages, req)} \cup AnyFailure :
              IF st # 200 THEN HTTPError(p, req, st)
              ELSE /\ pages' = PutEffect(pages, req)
                   /\ reqs' = [reqs EXCEPT ![p] = Append(@,
                          [req EXCEPT !.status = 200, !.rver = pages'[req.id].ver])]
                   /\ loc' = [loc EXCEPT ![p].info =
                                            EditResult(PageInfo(pages', req.id), loc[p].info),
                                         ![p].outcome = "Edited"]
                   /\ pc' = [pc EXCEPT ![p] = "update_metadata"]
                   /\ UNCHANGED <<atts, keyring, file, tmp, file0, nruns, written>>

\* A create that goes on to edit the page it created.
CreatePageThenEdit(p) ==
    /\ pc[p] = "create_page"
    /\ LET req == CreateRequest(loc[p].spaceKey, loc[p].createTitle, Content(p))
           natural == IF PostStatus(pages, req) = 200 /\ FreeIds(pages) = {}
                      THEN {} ELSE {PostStatus(pages, req)}
       IN  \E st \in natural \cup AnyFailure :
              IF st # 200 THEN HTTPError(p, req, st)
              ELSE /\ pages' = PostEffect(pages, req)
                   /\ reqs' = [reqs EXCEPT ![p] = Append(@,
                          [req EXCEPT !.status = 200, !.id = NewId(pages), !.rver = 1])]
                   /\ loc' = [loc EXCEPT ![p].info = PageInfo(pages', NewId(pages)),
                                         ![p].outcome = "Created"]
                   /\ pc' = [pc EXCEPT ![p] = "edit_page"]
                   /\ UNCHANGED <<atts, keyring, file, tmp, file0, nruns, written>>

\* Confluence.create_page: the POST, and the page info of its response.
CreatePage(p) ==
    /\ pc[p] = "create_page"
    /\ LET req == CreateRequest(loc[p].spaceKey, loc[p].createTitle, Content(p))
           natural == IF PostStatus(pages, req) = 200 /\ FreeIds(pages) = {}
                      THEN {} ELSE {PostStatus(pages, req)}
       IN  \E st \in natural \cup AnyFailure :
              IF st # 200 THEN HTTPError(p, req, st)
              ELSE /\ pages' = PostEffect(pages, req)
                   /\ reqs' = [reqs EXCEPT ![p] = Append(@,
                          [req EXCEPT !.status = 200, !.id = NewId(pages), !.rver = 1])]
                   /\ loc' = [loc EXCEPT ![p].info = PageInfo(pages', NewId(pages)),
                                         ![p].outcome = "Created"]
                   /\ pc' = [pc EXCEPT ![p] = "update_metadata"]
                   /\ UNCHANGED <<atts, keyring, file, tmp, file0, nruns, written>>

\* main, lines 159-161: the metadata after a page write.
UpdatedMetadata(metadata, baseUrlWithUsername, info) ==
    LET c0 == DictGet(metadata, CONFLUENCE).sub
        c1 == DictPop(c0, CONFLUENCE_BASE_URL)
        c2 == DictSet(c1, Item(CONFLUENCE_PAGE_URL, baseUrlWithUsername \o info.webui))
        c3 == DictSet(c2, Item(CONFLUENCE_PAGE_VERSION, <<StrOf(info.version)>>))
    IN  DictSet(metadata, MapItem(CONFLUENCE, c3))

\* main, lines 158-170, as the one step it is for everything but the
\* document's directory: update the metadata, write the temporary file and
\* replace the document by it.
Rewrite(p) ==
    /\ pc[p] = "update_metadata"
    /\ LET metadata == UpdatedMetadata(loc[p].metadata,
                                       loc[p].baseUrlWithUsername, loc[p].info)
       IN  /\ loc' = [loc EXCEPT ![p].metadata = metadata]
           /\ file' = [file EXCEPT ![p] =
                         StoredFile(metadata, loc[p].metadata_end_line, loc[p].lines)]
    /\ written' = [written EXCEPT ![p] = loc[p].info]
    /\ pc' = [pc EXCEPT ![p] = "attach_file"]
    /\ UNCHANGED <<pages, atts, keyring, tmp, reqs, file0, nruns>>

\* main, lines 158-164: update the metadata and create the temporary file
\* beside the document.
UpdateMetadata(p) ==
    /\ pc[p] = "update_metadata"
    /\ loc' = [loc EXCEPT
          ![p].metadata = UpdatedMetadata(loc[p].metadata,
                                          loc[p].baseUrlWithUsername, loc[p].info),
          ![p].chunk = 1]
    /\ tmp' = [tmp EXCEPT ![p] = [exists |-> TRUE, lines |-> <<>>]]
    /\ pc' = [pc EXCEPT ![p] = "store_write"]
    /\ UNCHANGED <<pages, atts, keyring, file, reqs, file0, nruns, written>>

\* Where one write of the rewrite lands: in the temporary file.
WriteInPlace(p) == "file"

WriteTarget(p) == "tmp"

\* main, lines 166-169: one write to the temporary file; the with block
\* closes it after the last.
StoreWrite(p) ==
    /\ pc[p] = "store_write"
    /\ LET chunks == StoreChunks(loc[p].metadata, loc[p].metadata_end_line, loc[p].lines)
           k == loc[p].chunk
       IN  /\ IF WriteTarget(p) = "tmp"
              THEN /\ tmp' = [tmp EXCEPT ![p].lines = @ \o chunks[k]]
                   /\ file' = file
              ELSE /\ tmp' = tmp
                   /\ file' = [file EXCEPT ![p] =
                                 MkFile(FALSE, (IF k = 1 THEN <<>> ELSE @.lines) \o chunks[k])]
           /\ loc' = [loc EXCEPT ![p].chunk = k + 1]
           /\ pc' = [pc EXCEPT ![p] = IF k = Len(chunks) THEN "store_replace" ELSE "store_write"]
    /\ UNCHANGED <<pages, atts, keyring, reqs, file0, nruns, written>>

\* main, line 170: os.replace(fd.name, str(file)).
StoreReplace(p) ==
    /\ pc[p] = "store_replace"
    /\ file' = [file EXCEPT ![p] =
                  IF WriteTarget(p) = "tmp" THEN MkFile(FALSE, tmp[p].lines) ELSE @]
    /\ tmp' = [tmp EXCEPT ![p] = NoFile]
    /\ written' = [written EXCEPT ![p] = loc[p].info]
    /\ pc' = [pc EXCEPT ![p] = "attach_file"]
    /\ UNCHANGED <<pages, atts, keyring, loc, reqs, file0, nruns>>

\* The process dies during the rewrite (killed, power lost, a failed
\* write): the temporary file stays as far as it was written.
Crash(p) ==
    /\ pc[p] \in {"store_write", "store_replace"}
    /\ pc' = [pc EXCEPT ![p] = "crashed"]
    /\ loc' = [loc EXCEPT ![p].outcome = "Crashed"]
    /\ UNCHANGED <<pages, atts, keyring, file, tmp, reqs, file0, nruns, written>>

\* An HTTPError of attach_file that fails the run and puts the document
\* back as the run found it.
AttachErrorRollback(p, req, st) ==
    /\ reqs' = [reqs EXCEPT ![p] = Append(@, [req EXCEPT !.status = st])]
    /\ loc' = [loc EXCEPT ![p].status = st, ![p].outcome = "HTTPError"]
    /\ file' = [file EXCEPT ![p] = file0[p]]
    /\ pc' = [pc EXCEPT ![p] = "done"]
    /\ UNCHANGED <<pages, atts, keyring, tmp, file0, nruns, written>>

\* main, lines 175-178: an HTTPError of attach_file is printed; the run ends.
AttachError(p, req, st) ==
    /\ reqs' = [reqs EXCEPT ![p] = Append(@, [req EXCEPT !.status = st])]
    /\ loc' = [loc EXCEPT ![p].status = st]
    /\ pc' = [pc EXCEPT ![p] = "done"]
    /\ UNCHANGED <<pages, atts, keyring, file, tmp, file0, nruns, written>>

\* attach_file, lines 150-155, with every upload sent to the creation
\* endpoint of the page.
AttachPathCreate(n) == "attachment"

\* attach_file, lines 150-155: the endpoint of the upload, for n attachments
\* of the file's name found on the page: the data of the first found, or the
\* attachments of the page when none was found.
AttachPath(n) == IF n > 0 THEN "data" ELSE "attachment"

\* attach_file, lines 148-155: look the file name up among the attachments
\* of the page and choose the endpoint.
AttachLookup(p) ==
    /\ pc[p] = "attach_file"
    /\ LET id == loc[p].info.id
           req == [Req("GET", "attachment") EXCEPT !.id = id]
       IN  \E st \in {IF pages[id].exists THEN 200 ELSE 404} \cup AnyFailure :
              IF st # 200 THEN AttachError(p, req, st)
              ELSE /\ reqs' = [reqs EXCEPT ![p] = Append(@,
                          [req EXCEPT !.status = 200, !.n = atts[<<id, p>>]])]
                   /\ loc' = [loc EXCEPT ![p].upload = AttachPath(atts[<<id, p>>])]
                   /\ pc' = [pc EXCEPT ![p] = "attach_upload"]
                   /\ UNCHANGED <<pages, atts, keyring, file, tmp, file0, nruns, written>>

\* The status the service answers an upload with: the creation endpoint
\* refuses a file name the page already carries, the data endpoint needs
\* the attachment to exist.
UploadStatus(n, endpoint) ==
    IF endpoint = "attachment" THEN (IF n > 0 THEN 400 ELSE 200)
    ELSE (IF n > 0 THEN 200 ELSE 404)

\* attach_file, lines 157-162: the multipart POST.
AttachUpload(p) ==
    /\ pc[p] = "attach_upload"
    /\ LET id == loc[p].info.id
           req == [Req("POST", loc[p].upload) EXCEPT !.id = id]
       IN  \E st \in {UploadStatus(atts[<<id, p>>], loc[p].upload)} \cup AnyFailure :
              IF st # 200 THEN AttachError(p, req, st)
              ELSE /\ reqs' = [reqs EXCEPT ![p] = Append(@, [req EXCEPT !.status = 200])]
                   /\ atts' = [atts EXCEPT ![<<id, p>>] =
                                 IF loc[p].upload = "attachment" THEN @ + 1 ELSE @]
                   /\ pc' = [pc EXCEPT ![p] = "done"]
                   /\ UNCHANGED <<pages, keyring, file, tmp, loc, file0, nruns, written>>

\* The steps of main() up to the page write, and the attachment after the
\* rewrite.
Sync(p) ==
    \/ Start(p)
    \/ GetPageInfo(p)
    \/ FindPagesByTitle(p)
    \/ AskCreate(p)
    \/ PostPageCreate(p)
    \/ PostPageNothing(p)
    \/ EditPage(p)
    \/ CreatePage(p)
    \/ AttachLookup(p)
    \/ AttachUpload(p)

\* Invocations of main() on the documents, interleaved at their requests.
Next == \E p \in Procs : Sync(p) \/ Rewrite(p)

Spec == Init /\ [][Next]_vars

\* Invocations of main() on one document with the rewrite taken write by
\* write, and the process dying anywhere in it.
NextStore ==
    \/ Sync(1)
    \/ UpdateMetadata(1)
    \/ StoreWrite(1)
    \/ StoreReplace(1)
    \/ Crash(1)

SpecStore == Init /\ [][NextStore]_vars

\* ------------------------------------- documents main() cannot start on
\* Files without a metadata block: empty, opening with text or with the
\* other terminator spelling, or a block that never ends.
MalformedDocuments ==
    { MkFile(FALSE, <<>>),
      MkFile(FALSE, <<TextLine(<<"# Heading">>), DashLine,
                      Mapping(CONFLUENCE),
                      Scalar(1, CONFLUENCE_BASE_URL, BareBaseUrl, "plain"),
                      DotsLine, TextLine(<<"text">>)>>),
      MkFile(TRUE, <<DotsLine, Mapping(CONFLUENCE),
                     Scalar(1, CONFLUENCE_BASE_URL, BareBaseUrl, "plain"),
                     DotsLine, TextLine(<<"text">>)>>),
      MkFile(FALSE, <<DashLine>>),
      MkFile(FALSE, <<DashLine, Scalar(0, "title", T1, "plain"),
                      Mapping(CONFLUENCE),
                      Scalar(1, CONFLUENCE_PAGE_URL, DisplayUrl(T1), "plain"),
                      Scalar(0, "date", <<"2017">>, "plain")>>) }

\* Page URLs of neither shape: a tiny link, the home of a space, a display
\* link with one component too many, a page of the newer /spaces/ layout,
\* a bare display link, and viewpage.action asked by title or with an id
\* that is no number.
OddUrls ==
    { BaseUrl \o <<"/", "x", "/", "AbCd">>,
      BaseUrl \o <<"/", "display", "/">> \o Home,
      DisplayUrl(T1) \o <<"/", "edit">>,
      BaseUrl \o <<"/", "spaces", "/">> \o Home \o <<"/", "pages", "/", "1", "/">> \o T1,
      <<"https:", "//", "wiki", "/", "display", "/", "Notes">>,
      BaseUrl \o <<"/", "pages", "/", "viewpage.action", "?", "title", "=", "Notes">>,
      BaseUrl \o <<"/", "pages", "/", "viewpage.action", "?", "pageId", "=", "abc">> }

OddUrlDocuments ==
    { Document(T1, <<Scalar(1, CONFLUENCE_PAGE_URL, u, "plain"),
                     Scalar(1, CONFLUENCE_PAGE_VERSION, <<"9">>, "plain")>>, DotsLine) :
        u \in OddUrls }

\* Runs on one document, which may be one main() cannot start on.
InitLoad ==
    /\ pages \in InitialPages
    /\ atts = [k \in PageIds \X Procs |-> 0]
    /\ keyring = TRUE
    /\ file \in {[p \in Procs |-> IF p = 1 THEN d1 ELSE Document(T2, <<>>, DashLine)] :
                    d1 \in Documents1 \cup MalformedDocuments \cup OddUrlDocuments}
    /\ tmp = [p \in Procs |-> NoFile]
    /\ pc = [p \in Procs |-> "idle"]
    /\ loc = [p \in Procs |-> NoLoc]
    /\ reqs = [p \in Procs |-> <<>>]
    /\ file0 = file
    /\ nruns = 0
    /\ written = [p \in Procs |-> NoInfo]

NextLoad == Sync(1) \/ Rewrite(1)

SpecLoad == InitLoad /\ [][NextLoad]_vars

\* --------------------------------------- load and store, nothing modified
\* Documents in the spellings a hand-written metadata block comes in: the
\* keys in any order, a comment, a quoted title, either terminator, a byte
\* order mark, a horizontal rule in the body.
HeaderOrders ==
    { <<"title", "confluence", "date">>, <<"title", "date", "confluence">>,
      <<"confluence", "title", "date">>, <<"confluence", "date", "title">>,
      <<"date", "title", "confluence">>, <<"date", "confluence", "title">> }

SectionOrders ==
    { <<Scalar(1, CONFLUENCE_PAGE_URL, DisplayUrl(T1), "plain"),
        Scalar(1, CONFLUENCE_PAGE_VERSION, <<"9">>, "plain")>>,
      <<Scalar(1, CONFLUENCE_PAGE_VERSION, <<"9">>, "plain"),
        Scalar(1, CONFLUENCE_PAGE_URL, DisplayUrl(T1), "plain")>> }

HeaderLines(key, section, style) ==
    IF key = "title" THEN <<Scalar(0, "title", T2, style)>>
    ELSE IF key = "date" THEN <<Scalar(0, "date", <<"2017">>, "plain")>>
    ELSE <<Mapping(CONFLUENCE)>> \o section

SampleDocument(bom, comment, order, section, style, end) ==
    MkFile(bom,
        <<DashLine>>
        \o (IF comment THEN <<CommentLine(<<"# metadata">>)>> ELSE <<>>)
        \o HeaderLines(order[1], section, style)
        \o HeaderLines(order[2], section, style)
        \o HeaderLines(order[3], section, style)
        \o <<end, TextLine(<<"# Heading">>), DashLine, TextLine(<<"text">>)>>)

SampleDocuments ==
    { SampleDocument(bom, comment, order, section, style, end) :
        bom \in BOOLEAN, comment \in BOOLEAN, order \in HeaderOrders,
        section \in SectionOrders, style \in {"plain", "double"},
        end \in {DotsLine, DashLine} }

InitDoc ==
    /\ pages = PageTable(Page(T1, 2, <<7, 8, 9>>), NoPage)
    /\ atts = [k \in PageIds \X Procs |-> 0]
    /\ keyring = TRUE
    /\ file \in {[p \in Procs |-> d] : d \in SampleDocuments}
    /\ tmp = [p \in Procs |-> NoFile]
    /\ pc = [p \in Procs |-> "idle"]
    /\ loc = [p \in Procs |-> NoLoc]
    /\ reqs = [p \in Procs |-> <<>>]
    /\ file0 = file
    /\ nruns = 0
    /\ written = [p \in Procs |-> NoInfo]

\* main, lines 41-60 and 164-170 with nothing in between: the file is loaded
\* and stored back with the metadata as loaded.
LoadStore(p) ==
    /\ pc[p] = "idle"
    /\ LET d == LoadDocument(file[p])
       IN  /\ d.ok
           /\ file' = [file EXCEPT ![p] =
                         StoredFile(d.metadata, d.metadata_end_line, d.lines)]
           /\ loc' = [loc EXCEPT ![p].metadata = d.metadata,
                                 ![p].metadata_end_line = d.metadata_end_line,
                                 ![p].lines = d.lines]
    /\ pc' = [pc EXCEPT ![p] = "stored"]
    /\ UNCHANGED <<pages, atts, keyring, tmp, reqs, file0, nruns, written>>

NextDoc == \E p \in Procs : LoadStore(p)

SpecDoc == InitDoc /\ [][NextDoc]_vars

\* ------------------------------------ post_page, as one call, twice over
\* confluence.py and confluence_poster.py each hold a class Confluence.  A
\* call of post_page is taken here from its arguments, the pages of the
\* service and the operator's answer to the requests it sends and the way
\* it ends.  expand tells whether the request asks for the expanded page
\* info (version, ancestors, space) in the response.
WithExpand(req, expand) == req @@ [expand |-> expand]

\* The service answers the k-th request of a call: it refuses the
\* credential when fail = k, and else answers with the natural status.
Answer(req, natural, k, fail) ==
    [req EXCEPT !.status = IF fail = k THEN 401 ELSE natural]

\* The status of a GET of a page by its id.
GetStatus(tbl, pageid) ==
    IF pageid \in PageIds /\ tbl[pageid].exists THEN 200 ELSE 404

\* How a call ended, and the requests it sent.
Outcome(branch, sent) == [branch |-> branch, reqs |-> sent]

\* confluence.py, get_page_info and find_pages_by_title: the GET sent.
get_page_info(pageid) ==
    WithExpand([Req("GET", "page") EXCEPT !.id = pageid], TRUE)

find_pages_by_title(spaceKey, title) ==
    WithExpand([Req("GET", "search") EXCEPT !.space = spaceKey, !.title = title], TRUE)

\* confluence.py, edit_page: the PUT after the requests sent so far.
edit_page(sent, info, title, content, tbl, fail) ==
    LET req == WithExpand(EditRequest(info, title, content), FALSE)
        put == Answer(req, PutStatus(tbl, req), Len(sent) + 1, fail)
    IN  Outcome(IF put.status = 200 THEN "Edited" ELSE "HTTPError", Append(sent, put))

\* confluence.py, create_page: the POST, which asks for the expanded info.
create_page(sent, spaceKey, title, content, tbl, fail) ==
    LET req == WithExpand(CreateRequest(spaceKey, title, content), TRUE)
        post == Answer(req, PostStatus(tbl, req), Len(sent) + 1, fail)
    IN  Outcome(IF post.status = 200 THEN "Created" ELSE "HTTPError", Append(sent, post))

\* confluence.py, post_page, lines 44-77 (pageid = 0 is None).
post_page(pageid, spaceKey, title, newTitle, content, tbl, answer, fail) ==
    IF pageid # 0
    THEN LET get == Answer(get_page_info(pageid), GetStatus(tbl, pageid), 1, fail)
         IN  IF get.status # 200 THEN Outcome("HTTPError", <<get>>)
             ELSE edit_page(<<get>>, PageInfo(tbl, pageid), newTitle, content, tbl, fail)
    ELSE IF spaceKey # None /\ title # None
    THEN LET res == SetToSeq(Matches(tbl, spaceKey, title))
             get == Answer(find_pages_by_title(spaceKey, title), 200, 1, fail)
         IN  IF get.status # 200 THEN Outcome("HTTPError", <<get>>)
             ELSE IF Resolve(res) = "none"
             THEN IF OffersCreate(title, newTitle) /\ Accepts(answer)
                  THEN create_page(<<get>>, spaceKey, title, content, tbl, fail)
                  ELSE Outcome("None", <<get>>)
             ELSE IF Resolve(res) = "edit"
             THEN edit_page(<<get>>, PageInfo(tbl, res[1]), newTitle, content, tbl, fail)
             ELSE Outcome("Exception", <<get>>)
    ELSE IF spaceKey # None /\ newTitle # None
    THEN create_page(<<>>, spaceKey, newTitle, content, tbl, fail)
    ELSE Outcome("None", <<>>)

\* confluence_poster.py, get_page_info and find_pages_by_title, lines
\* 112-129: the GET sent.
poster_get_page_info(pageid) ==
    WithExpand([Req("GET", "page") EXCEPT !.id = pageid], TRUE)

poster_find_pages_by_title(spaceKey, title) ==
    WithExpand([Req("GET", "search") EXCEPT !.space = spaceKey, !.title = title], TRUE)

\* confluence_poster.py, edit_page, lines 158-192.
PosterEditVersion(info) == info.version + 1

PosterEditTitle(info, title) == IF title = None THEN info.title ELSE title

PosterEditAncestors(info) ==
    IF Len(info.ancestors) # 0 THEN <<info.ancestors[Len(info.ancestors)]>> ELSE <<>>

poster_edit_page(sent, info, title, content, tbl, fail) ==
    LET req == WithExpand([Req("PUT", "page") EXCEPT
                              !.id = info.id,
                              !.title = PosterEditTitle(info, title),
                              !.ver = PosterEditVersion(info),
                              !.anc = PosterEditAncestors(info),
                              !.body = content], FALSE)
        put == Answer(req, PutStatus(tbl, req), Len(sent) + 1, fail)
    IN  Outcome(IF put.status = 200 THEN "Edited" ELSE "HTTPError", Append(sent, put))

\* confluence_poster.py, create_page, lines 132-155: the POST, sent to the
\* bare content URL.
poster_create_page(sent, spaceKey, title, content, tbl, fail) ==
    LET req == WithExpand([Req("POST", "page") EXCEPT
                              !.space = spaceKey, !.title = title, !.body = content],
                          FALSE)
        post == Answer(req, PostStatus(tbl, req), Len(sent) + 1, fail)
    IN  Outcome(IF post.status = 200 THEN "Created" ELSE "HTTPError", Append(sent, post))

\* confluence_poster.py, post_page, lines 76-109.
poster_post_page(pageid, spaceKey, title, newTitle, content, tbl, answer, fail) ==
    IF pageid # 0
    THEN LET get == Answer(poster_get_page_info(pageid), GetStatus(tbl, pageid), 1, fail)
         IN  IF get.status # 200 THEN Outcome("HTTPError", <<get>>)
             ELSE poster_edit_page(<<get>>, PageInfo(tbl, pageid), newTitle, content,
                                   tbl, fail)
    ELSE IF spaceKey # None /\ title # None
    THEN LET res == SetToSeq(Matches(tbl, spaceKey, title))
             get == Answer(poster_find_pages_by_title(spaceKey, title), 200, 1, fail)
         IN  IF get.status # 200 THEN Outcome("HTTPError", <<get>>)
             ELSE IF Len(res) = 0
             THEN IF title = newTitle /\ Lower(answer) = "y"
                  THEN poster_create_page(<<get>>, spaceKey, title, content, tbl, fail)
                  ELSE Outcome("None", <<get>>)
             ELSE IF Len(res) = 1
             THEN poster_edit_page(<<get>>, PageInfo(tbl, res[1]), newTitle, content,
                                   tbl, fail)
             ELSE Outcome("Exception", <<get>>)
    ELSE IF spaceKey # None /\ newTitle # None
    THEN poster_create_page(<<>>, spaceKey, newTitle, content, tbl, fail)
    ELSE Outcome("None", <<>>)

\* The arguments of a call: a page id (3 is no page), a space key or none,
\* a title to search or none, a new title or none.
CallPageIds == {0, 1, 3}
CallSpaceKeys == {None, Home}
CallTitles == {None, T1, T2}

\* Both classes are handed the same call, held in loc of 1 and of 2.
InitPair ==
    /\ pages \in InitialPages
    /\ atts = [k \in PageIds \X Procs |-> 0]
    /\ keyring = TRUE
    /\ file = [p \in Procs |-> Document(T2, <<>>, DashLine)]
    /\ tmp = [p \in Procs |-> NoFile]
    /\ pc = [p \in Procs |-> "idle"]
    /\ \E pageid \in CallPageIds, spaceKey \in CallSpaceKeys, title \in CallTitles,
          newTitle \in NewTitles, answer \in Answers :
          loc = [p \in Procs |-> [NoLoc EXCEPT !.pageId = pageid, !.spaceKey = spaceKey,
                                               !.title = title, !.newTitle = newTitle,
                                               !.answer = answer]]
    /\ reqs = [p \in Procs |-> <<>>]
    /\ file0 = file
    /\ nruns = 0
    /\ written = [p \in Procs |-> NoInfo]

\* The call is made on confluence.Confluence (1) and on
\* confluence_poster.Confluence (2), against the same pages, with the same
\* answer of the operator and the same request refused, if any.
PostBoth ==
    /\ pc[1] = "idle" /\ pc[2] = "idle"
    /\ \E fail \in 0 .. 2 :
          LET a == post_page(loc[1].pageId, loc[1].spaceKey, loc[1].title,
                             loc[1].newTitle, Content(1), pages, loc[1].answer, fail)
              b == poster_post_page(loc[2].pageId, loc[2].spaceKey, loc[2].title,
                                    loc[2].newTitle, Content(1), pages, loc[2].answer, fail)
          IN  /\ reqs' = [p \in Procs |-> IF p = 1 THEN a.reqs ELSE b.reqs]
              /\ loc' = [p \in Procs |->
                           [loc[p] EXCEPT !.outcome = IF p = 1 THEN a.branch ELSE b.branch]]
    /\ pc' = [p \in Procs |-> "posted"]
    /\ UNCHANGED <<pages, atts, keyring, file, tmp, file0, nruns, written>>

NextPair == PostBoth

SpecPair == InitPair /\ [][NextPair]_vars

\* ================================================================ claims
\* A request that writes a page.
IsWrite(e) == e.target = "page" /\ e.method \in {"PUT", "POST"}

\* A request that writes anything on the service.
IsMutation(e) == e.method \in {"PUT", "POST"}

\* The run of document p has an accepted page write behind it.
WriteAccepted(p) ==
    \E i \in 1 .. Len(reqs[p]) : IsWrite(reqs[p][i]) /\ reqs[p][i].status = 200

\* The title query of the run of p was answered, with n pages.
Queried(p) ==
    /\ Len(reqs[p]) >= 1
    /\ reqs[p][1].target = "search"
    /\ reqs[p][1].status = 200

\* The run of p fetched a page (by id, or as the one result of the query).
Fetched(p) ==
    /\ Len(reqs[p]) >= 1
    /\ reqs[p][1].method = "GET"
    /\ reqs[p][1].status = 200
    /\ reqs[p][1].n = 1

SentPut(p) == Len(reqs[p]) >= 2 /\ reqs[p][2].method = "PUT"

\* The page-version the metadata block of file f stores, None when it
\* stores none.
DocVersion(f) ==
    LET c == DictGet(LoadDocument(f).metadata, CONFLUENCE).sub
    IN  IF DictHas(c, CONFLUENCE_PAGE_VERSION)
        THEN DictGet(c, CONFLUENCE_PAGE_VERSION).val ELSE None

\* C1: when the title query returns exactly one page, the next request is
\* the only page write of the run: a PUT on that page whose version.number
\* is the fetched version plus 1; when it is accepted the run is Edited and
\* the page info returned carries the old version plus 1.
C1_OneMatchPutsFetchedVersionPlusOne ==
    \A p \in Procs :
        LET r == reqs[p] IN
        (Queried(p) /\ r[1].n = 1) =>
            /\ (Len(r) = 1 => pc[p] = "edit_page")
            /\ (Len(r) >= 2 =>
                  /\ r[2].method = "PUT" /\ r[2].target = "page"
                  /\ r[2].id = r[1].id
                  /\ r[2].ver = r[1].rver + 1
                  /\ \A i \in 3 .. Len(r) : ~IsWrite(r[i])
                  /\ (r[2].status = 200 =>
                        /\ loc[p].outcome = "Edited"
                        /\ r[2].rver = r[1].rver + 1
                        /\ loc[p].info.version = r[1].rver + 1))

\* A run on a document whose stored page-version is 9 found one page, at
\* version 2, and had its PUT of version 3 accepted.
C1_Witness ==
    \E p \in Procs :
        /\ Queried(p) /\ reqs[p][1].n = 1 /\ reqs[p][1].rver = 2
        /\ DocVersion(file0[p]) = <<"9">>
        /\ SentPut(p) /\ reqs[p][2].ver = 3 /\ reqs[p][2].status = 200
        /\ loc[p].outcome = "Edited"

\* C2: when the title query returns more than one page the run has raised:
\* the query is the only request it sent (no PUT, no POST, no upload), and
\* the document file is the one it found, with no temporary file written.
C2_AmbiguousTitleAbortsWithoutWriting ==
    \A p \in Procs :
        (Queried(p) /\ reqs[p][1].n > 1) =>
            /\ pc[p] = "failed"
            /\ loc[p].outcome = "Exception"
            /\ Len(reqs[p]) = 1
            /\ file[p] = file0[p]
            /\ ~tmp[p].exists

C2_Witness ==
    \E p \in Procs : Queried(p) /\ reqs[p][1].n = 2 /\ pc[p] = "failed"

\* The run of p found no page under the searched title, which is also the
\* new title.
NoMatchSameTitle(p) ==
    Queried(p) /\ reqs[p][1].n = 0 /\ loc[p].title = loc[p].newTitle

\* The operator has answered the offer to create the page.
Answered(p) == loc[p].asked /\ pc[p] # "ask_create"

NothingWritten(p) ==
    /\ \A i \in 1 .. Len(reqs[p]) : ~IsMutation(reqs[p][i])
    /\ file[p] = file0[p]

\* C3 as stated: with no match and newTitle equal to the title the run
\* offers to create the page, and after any answer other than 'y' no write
\* request is sent and the document is not rewritten.
C3_AnyAnswerButLowercaseYDeclines ==
    \A p \in Procs :
        NoMatchSameTitle(p) =>
            /\ loc[p].asked
            /\ (Answered(p) /\ loc[p].answer # "y" => NothingWritten(p))

\* C3 amended: with no match and newTitle equal to the title the run offers
\* to create the page, and after any answer that is not 'y' once lower-cased
\* (so neither 'y' nor 'Y') the run has ended returning nothing, with no
\* write request sent and the document not rewritten.
C3_DeclineWritesNothing ==
    \A p \in Procs :
        NoMatchSameTitle(p) =>
            /\ loc[p].asked
            /\ (Answered(p) /\ Lower(loc[p].answer) # "y" =>
                  /\ NothingWritten(p)
                  /\ pc[p] = "done" /\ loc[p].outcome = "None"
                  /\ Len(reqs[p]) = 1)

\* The operator pressed Enter at the offer and the run ended.
C3_Witness ==
    \E p \in Procs :
        /\ NoMatchSameTitle(p) /\ Answered(p) /\ loc[p].answer = ""
        /\ pc[p] = "done" /\ file[p] = file0[p]

\* C4: two runs that fetched the same page at the same version N and both
\* sent their PUT both submitted N + 1, and at most one was accepted; if one
\* was, the other was refused, as stale (409) unless its credential (401)
\* or its title (400) was refused first, its document is as it found it,
\* and the page is at version N + 1 with the content of the accepted run.
\* With no credential or title refused, exactly one PUT was accepted and
\* the other answered 409.
C4_StalePutRejected ==
    \A p, q \in Procs :
        (/\ p # q
         /\ Fetched(p) /\ Fetched(q)
         /\ reqs[p][1].id = reqs[q][1].id
         /\ reqs[p][1].rver = reqs[q][1].rver
         /\ SentPut(p) /\ SentPut(q)) =>
            LET N == reqs[p][1].rver
                id == reqs[p][1].id
                sp == reqs[p][2].status
                sq == reqs[q][2].status
            IN  /\ reqs[p][2].ver = N + 1 /\ reqs[q][2].ver = N + 1
                /\ (sp = 200 =>
                      /\ sq \in {409, 401, 400}
                      /\ Len(reqs[q]) = 2
                      /\ file[q] = file0[q]
                      /\ pages[id].ver = N + 1
                      /\ pages[id].body = Content(p))
                /\ ({sp, sq} \cap {401, 400} = {} => {sp, sq} = {200, 409})

C4_Witness ==
    \E p, q \in Procs :
        /\ p # q /\ Fetched(p) /\ Fetched(q)
        /\ reqs[p][1].id = reqs[q][1].id
        /\ reqs[p][1].rver = 2 /\ reqs[q][1].rver = 2
        /\ SentPut(p) /\ SentPut(q)
        /\ reqs[p][2].status = 200 /\ reqs[q][2].status = 409
        /\ pages[reqs[p][1].id].ver = 3
        /\ file[q] = file0[q] /\ pc[q] = "done"

\* The run of p has rewritten the document after an accepted page write.
Synced(p) ==
    /\ pc[p] \in {"attach_file", "attach_upload", "done"}
    /\ loc[p].outcome \in {"Edited", "Created"}

\* C5: after a run that ended in an accepted create or edit, the
\* page-version stored in the document is the version number the response
\* to that write carried.
C5_StoredVersionIsResponseVersion ==
    \A p \in Procs :
        Synced(p) =>
            \E i \in 1 .. Len(reqs[p]) :
                /\ IsWrite(reqs[p][i]) /\ reqs[p][i].status = 200
                /\ DocVersion(file[p]) = <<StrOf(reqs[p][i].rver)>>

\* An edit of version 2 was accepted as version 3, and 3 replaced the 9
\* the document stored.
C5_Witness ==
    \E p \in Procs :
        /\ Synced(p) /\ loc[p].outcome = "Edited" /\ pc[p] = "done"
        /\ DocVersion(file0[p]) = <<"9">>
        /\ DocVersion(file[p]) = <<"3">>

\* C6: the document file differs from the one the run found only if a page
\* write of the run was accepted; a run that ended on an exception, an HTTP
\* error or returning nothing left the file as it was and no temporary file.
C6_RewriteOnlyAfterAcceptedWrite ==
    \A p \in Procs :
        /\ (file[p] # file0[p] => WriteAccepted(p))
        /\ (tmp[p].exists => WriteAccepted(p))
        /\ (loc[p].outcome \in {"HTTPError", "Exception", "None"} =>
              file[p] = file0[p])

\* A rejected PUT (version conflict) ended a run with the file untouched.
C6_Witness ==
    \E p \in Procs :
        /\ pc[p] = "done" /\ loc[p].outcome = "HTTPError" /\ loc[p].status = 409
        /\ file[p] = file0[p]

\* The page a link recorded is still there under the space and title it
\* was recorded with.
StillPresent(info) ==
    /\ info.id # 0
    /\ pages[info.id].exists
    /\ pages[info.id].space = info.space
    /\ pages[info.id].title = info.title

C8_EditSubmitsImmediateParentOnly ==
    \A p \in Procs :
        \A i \in 1 .. Len(reqs[p]) :
            reqs[p][i].method = "PUT" =>
                /\ i >= 2
                /\ reqs[p][i - 1].method = "GET" /\ reqs[p][i - 1].status = 200
                /\ Len(reqs[p][i].anc) <= 1
                /\ reqs[p][i].anc =
                      IF reqs[p][i - 1].anc = <<>> THEN <<>>
                      ELSE <<reqs[p][i - 1].anc[Len(reqs[p][i - 1].anc)]>>

\* A page under the chain 7, 8, 9 was edited with ancestors 9.
C8_Witness ==
    \E p \in Procs :
        /\ SentPut(p)
        /\ reqs[p][1].anc = <<7, 8, 9>>
        /\ reqs[p][2].anc = <<9>>
        /\ reqs[p][2].status = 200

\* C9 as stated: a document loaded and stored back with its header not
\* modified is the document it was, line for line, byte order mark, key
\* order and terminator included.
C9_LoadStoreReproducesDocument ==
    \A p \in Procs : pc[p] = "stored" => file[p] = file0[p]

\* C10: at every step of the rewrite, a crash included, the file at the
\* document's path is the complete original or the complete new document;
\* after a crash it is the original.
C10_RewriteIsAtomic ==
    \A p \in Procs :
        /\ \/ file[p] = file0[p]
           \/ /\ pc[p] \in {"attach_file", "attach_upload", "done"}
              /\ file[p] = StoredFile(loc[p].metadata, loc[p].metadata_end_line,
                                      loc[p].lines)
        /\ (pc[p] = "crashed" => file[p] = file0[p])

\* The process died with the temporary file partly written.
C10_Witness ==
    \E p \in Procs :
        /\ pc[p] = "crashed"
        /\ tmp[p].exists /\ Len(tmp[p].lines) > 1
        /\ loc[p].chunk = 3
        /\ file[p] = file0[p]

\* A request that uploads a file to a page.
IsUpload(e) == e.method = "POST" /\ e.target \in {"attachment", "data"}

\* C11: every upload follows an answered lookup of the file's name on the
\* page; with no attachment found it goes to the attachment-creation
\* endpoint of the page, with one found to the data endpoint of that
\* attachment; once an upload was accepted the page carries exactly one
\* attachment of that name, and never more than one, however often the
\* document is attached.
C11_AttachTwiceKeepsOneRecord ==
    /\ \A k \in PageIds \X Procs : atts[k] <= 1
    /\ \A p \in Procs :
          \A i \in 1 .. Len(reqs[p]) :
              IsUpload(reqs[p][i]) =>
                  /\ i >= 2
                  /\ reqs[p][i - 1].target = "attachment"
                  /\ reqs[p][i - 1].method = "GET"
                  /\ reqs[p][i - 1].status = 200
                  /\ reqs[p][i - 1].id = reqs[p][i].id
                  /\ reqs[p][i].target =
                        (IF reqs[p][i - 1].n = 0 THEN "attachment" ELSE "data")
                  /\ (reqs[p][i].status = 200 => atts[<<reqs[p][i].id, p>>] = 1)

\* A second run attached the document again: it found the attachment of
\* the first run, sent the file to its data endpoint, and one record is there.
C11_Witness ==
    \E p \in Procs :
        LET r == reqs[p] IN
        /\ pc[p] = "done" /\ Len(r) >= 2
        /\ r[Len(r)].method = "POST" /\ r[Len(r)].target = "data"
        /\ r[Len(r)].status = 200
        /\ r[Len(r) - 1].n = 1
        /\ atts[<<r[Len(r)].id, p>>] = 1

\* A request post_page sends: the fetch or the query that resolves the
\* page, the PUT or the POST.
IsPostPageRequest(e) == e.target \in {"page", "search"}

\* The step appends to the requests of p a request of post_page that the
\* service refused.
PostPageRequestRefused(p) ==
    /\ Len(reqs'[p]) = Len(reqs[p]) + 1
    /\ IsPostPageRequest(Last(reqs'[p]))
    /\ Last(reqs'[p]).status # 200

\* C12: the step in which a request of post_page is refused ends the run as
\* an HTTP error of that status with the document untouched; when the status
\* is 401 the keyring holds no password after it, and for any other status
\* the keyring is as it was.  A refused request of post_page is the last
\* request of its run, and the run's document is the one it found.
C12_Refused401DeletesCredential ==
    /\ [](\A p \in Procs :
            \A i \in 1 .. Len(reqs[p]) :
                (IsPostPageRequest(reqs[p][i]) /\ reqs[p][i].status # 200) =>
                    /\ i = Len(reqs[p])
                    /\ pc[p] = "done"
                    /\ loc[p].outcome = "HTTPError"
                    /\ loc[p].status = reqs[p][i].status
                    /\ file[p] = file0[p]
                    /\ ~tmp[p].exists)
    /\ [][\A p \in Procs :
            PostPageRequestRefused(p) =>
                /\ keyring' = (IF Last(reqs'[p]).status = 401 THEN FALSE ELSE keyring)
                /\ pc'[p] = "done"
                /\ file' = file]_vars

\* A PUT was refused with 401: the run has ended, the keyring is empty and
\* the document is as the run found it.
C12_Witness ==
    \E p \in Procs :
        /\ SentPut(p) /\ reqs[p][2].status = 401 /\ Len(reqs[p]) = 2
        /\ pc[p] = "done" /\ loc[p].status = 401
        /\ ~keyring
        /\ file[p] = file0[p]

\* The reference main() reads from the `confluence` section of file f.
DocReference(f) ==
    ParseReference(DictGet(LoadDocument(f).metadata, CONFLUENCE).sub)

AbortedAtStart(p) ==
    /\ pc[p] = "failed"
    /\ loc[p].outcome = "Exception"
    /\ loc[p].username = None
    /\ loc[p].pageId = 0 /\ loc[p].spaceKey = None /\ loc[p].title = None
    /\ reqs[p] = <<>>
    /\ file[p] = file0[p]
    /\ ~tmp[p].exists

\* The step is one of the run of p and leaves keyring, service and files
\* as they are.
StepTouchesNothing(p) ==
    pc'[p] # pc[p] => keyring' = keyring /\ pages' = pages /\ atts' = atts /\ file' = file

\* File f has a metadata block whose page-url has a path that is neither
\* .../display/<space>/<title> nor .../pages/viewpage.action with a
\* numeric pageId in the query.
UnrecognizedUrl(f) ==
    LET d == LoadDocument(f) IN
    /\ d.ok
    /\ DictHas(d.metadata, CONFLUENCE)
    /\ DictHas(DictGet(d.metadata, CONFLUENCE).sub, CONFLUENCE_PAGE_URL)
    /\ LET url == urlsplit(DictGet(DictGet(d.metadata, CONFLUENCE).sub,
                                   CONFLUENCE_PAGE_URL).val)
           parts == PathParts(url.path)
           plen == Len(parts)
       IN  /\ ~(plen >= 4 /\ parts[plen - 2] = <<"display">>)
           /\ ~(/\ plen >= 3
                /\ parts[plen - 1] = <<"pages">>
                /\ parts[plen] = <<"viewpage.action">>
                /\ IntOf(QueryPageId(url.query)) # 0)

\* C14: a run on a document whose page-url is of neither shape has raised
\* at its start: no reference was taken from the URL, no credential asked
\* for, no request sent, and the document is as it was; the step that
\* starts it changes neither the keyring nor the service nor the file.
C14_UnrecognizedUrlAbortsAtStart ==
    /\ [](\A p \in Procs :
            (UnrecognizedUrl(file0[p]) /\ pc[p] # "idle") => AbortedAtStart(p))
    /\ [][\A p \in Procs : UnrecognizedUrl(file[p]) => StepTouchesNothing(p)]_vars

\* A run on a document whose page-url is viewpage.action asked by title has
\* ended at its start.
C14_Witness ==
    \E p \in Procs :
        /\ UnrecognizedUrl(file0[p])
        /\ \E i \in 1 .. Len(file0[p].lines) : file0[p].lines[i].val =
              BaseUrl \o <<"/", "pages", "/", "viewpage.action", "?", "title", "=", "Notes">>
        /\ pc[p] = "failed" /\ nruns >= 1
        /\ file[p] = file0[p]

\* File f does not open with the block-open line, or has no terminator
\* line after it.
Malformed(f) ==
    \/ f.lines = <<>>
    \/ f.lines[1].kind # "---"
    \/ \A i \in 2 .. Len(f.lines) : f.lines[i].kind \notin {"...", "---"}

\* C15: a run on a document that does not open with the block-open line,
\* or whose block has no terminator line, has raised at its start: no
\* request was sent and the document is as it was; the step that starts it
\* changes neither the keyring nor the service nor the file.
C15_MalformedDocumentAbortsAtStart ==
    /\ [](\A p \in Procs :
            (Malformed(file0[p]) /\ pc[p] # "idle") => AbortedAtStart(p))
    /\ [][\A p \in Procs : Malformed(file[p]) => StepTouchesNothing(p)]_vars

\* A run on a document whose block is never terminated has ended at its
\* start, and so has a second run on it.
C15_Witness ==
    \E p \in Procs :
        /\ Len(file0[p].lines) > 1 /\ file0[p].lines[1].kind = "---"
        /\ Malformed(file0[p])
        /\ pc[p] = "failed" /\ nruns >= 2
        /\ file[p] = file0[p]

\* C16: a PUT or a POST of a run that the service refused (a version
\* conflict included) is the last request of that run, and the run has
\* ended: nothing is fetched again, no second write and no upload follows.
\* A refused page write is also the first write of its run; only a refused
\* upload has a write, the accepted page write, before it.
C16_RejectedWriteIsNeverRetried ==
    \A p \in Procs :
        \A i \in 1 .. Len(reqs[p]) :
            (IsMutation(reqs[p][i]) /\ reqs[p][i].status # 200) =>
                /\ i = Len(reqs[p])
                /\ pc[p] = "done"
                /\ \A j \in 1 .. i - 1 : ~IsMutation(reqs[p][j]) \/ IsUpload(reqs[p][i])

\* The POST of a run was refused because the title had been taken in the
\* meantime; the run has ended on it.
C16_Witness ==
    \E p \in Procs :
        /\ Len(reqs[p]) >= 1
        /\ Last(reqs[p]).method = "POST" /\ Last(reqs[p]).target = "page"
        /\ Last(reqs[p]).status = 400
        /\ pc[p] = "done" /\ loc[p].outcome = "HTTPError"

\* A request of attach_file: the lookup or the upload.
IsAttachRequest(e) == e.target \in {"attachment", "data"}

\* The step appends to the requests of p a request of attach_file that the
\* service refused.
AttachRequestRefused(p) ==
    /\ Len(reqs'[p]) = Len(reqs[p]) + 1
    /\ IsAttachRequest(Last(reqs'[p]))
    /\ Last(reqs'[p]).status # 200

\* C17: a run that has sent a request of attach_file has rewritten the
\* document before: the file is the stored form of the updated metadata
\* and carries the version of the accepted page write.  The step in which
\* the lookup or the upload is refused changes neither the pages of the
\* service nor the document, and the run ends as the Created or Edited run
\* it was.
C17_AttachFailureRollsNothingBack ==
    /\ [](\A p \in Procs :
            (\E i \in 1 .. Len(reqs[p]) : IsAttachRequest(reqs[p][i])) =>
                /\ WriteAccepted(p)
                /\ loc[p].outcome \in {"Created", "Edited"}
                /\ written[p] = loc[p].info
                /\ file[p] = StoredFile(loc[p].metadata, loc[p].metadata_end_line,
                                        loc[p].lines)
                /\ DocVersion(file[p]) = <<StrOf(loc[p].info.version)>>)
    /\ [][\A p \in Procs :
            AttachRequestRefused(p) =>
                /\ pages' = pages
                /\ file' = file
                /\ written' = written
                /\ loc'[p].outcome = loc[p].outcome
                /\ pc'[p] = "done"]_vars

\* The upload of a run that had edited the page was refused: the run has
\* ended, the page is at the version the edit gave it and the document
\* stores that version.
C17_Witness ==
    \E p \in Procs :
        /\ Len(reqs[p]) >= 3
        /\ IsUpload(Last(reqs[p])) /\ Last(reqs[p]).status # 200
        /\ pc[p] = "done" /\ loc[p].outcome = "Edited"
        /\ pages[loc[p].info.id].ver = loc[p].info.version
        /\ DocVersion(file[p]) = <<StrOf(loc[p].info.version)>>
        /\ file[p] # file0[p]

\* The title query of the run of p found no page, and the title searched
\* is not the new title (which may be None).
NoMatchOtherTitle(p) ==
    Queried(p) /\ reqs[p][1].n = 0 /\ loc[p].title # loc[p].newTitle

\* C18: a run whose title query found no page, with a new title other than
\* the title searched or with none, has ended returning nothing: it did not
\* offer to create the page, the query is its only request, it did not
\* raise, and the document is as the run found it.
C18_NoMatchOtherTitleIsNoOp ==
    \A p \in Procs :
        NoMatchOtherTitle(p) =>
            /\ pc[p] = "done"
            /\ loc[p].outcome = "None"
            /\ ~loc[p].asked
            /\ Len(reqs[p]) = 1
            /\ file[p] = file0[p]
            /\ ~tmp[p].exists

\* Two runs found nothing under the title they searched: one document has
\* no title, the other a different one.
C18_Witness ==
    \E p, q \in Procs :
        /\ NoMatchOtherTitle(p) /\ loc[p].newTitle = None /\ pc[p] = "done"
        /\ NoMatchOtherTitle(q) /\ loc[q].newTitle = T3 /\ pc[q] = "done"
        /\ loc[q].title = T1

\* The keys of a loaded mapping, in the order of the file.
KeysOf(d) == [i \in 1 .. Len(d) |-> d[i].key]

\* The items of a loaded mapping other than those under the given keys.
ItemsBut(d, keys) == SelectSeq(d, LAMBDA it : it.key \notin keys)

\* C19 as stated: after a run that rewrote the document on an accepted
\* write, the keys of the header are those of the original in the original
\* order, every key other than the confluence section has its value, the
\* section differs only in base-url, page-url and page-version, with its
\* other keys in their order, the terminator line is the one found, and
\* the lines of the body are the original ones in their order.
C19_RewriteChangesOnlySyncKeys ==
    \A p \in Procs :
        Synced(p) =>
            LET old == LoadDocument(file0[p])
                new == LoadDocument(file[p])
                sync == {CONFLUENCE_BASE_URL, CONFLUENCE_PAGE_URL, CONFLUENCE_PAGE_VERSION}
            IN  /\ new.ok
                /\ KeysOf(new.metadata) = KeysOf(old.metadata)
                /\ ItemsBut(new.metadata, {CONFLUENCE}) = ItemsBut(old.metadata, {CONFLUENCE})
                /\ ItemsBut(DictGet(new.metadata, CONFLUENCE).sub, sync)
                      = ItemsBut(DictGet(old.metadata, CONFLUENCE).sub, sync)
                /\ new.metadata_end_line = old.metadata_end_line
                /\ new.lines = old.lines

\* The step appends a PUT to the requests of p.
PutSent(p) ==
    /\ Len(reqs'[p]) = Len(reqs[p]) + 1
    /\ Last(reqs'[p]).method = "PUT"

\* C20: the PUT a run sends carries the new title of the document when it
\* has one and else the title of the page info fetched just before, and as
\* body the content converted from the document; when the PUT is accepted
\* the page has that title and exactly that body.
C20_EditSubmitsNewTitleAndContent ==
    [][\A p \in Procs :
          PutSent(p) =>
              LET put == Last(reqs'[p]) IN
              /\ put.id = loc[p].info.id
              /\ put.title = (IF loc[p].newTitle # None THEN loc[p].newTitle
                              ELSE loc[p].info.title)
              /\ put.body = Content(p)
              /\ (put.status = 200 =>
                    /\ pages'[put.id].title = put.title
                    /\ pages'[put.id].body = Content(p))]_vars

\* One run, on a document without title, edited the page under the title it
\* had; a later run, on a document titled C++, edited the same page under
\* its new title, replacing the body.
C20_Witness ==
    \E p, q \in Procs :
        /\ SentPut(p) /\ reqs[p][2].status = 200
        /\ loc[p].newTitle = None /\ reqs[p][2].title = T1
        /\ reqs[p][2].body = Content(p)
        /\ SentPut(q) /\ reqs[q][2].status = 200
        /\ reqs[q][2].id = reqs[p][2].id
        /\ loc[q].newTitle = T3 /\ reqs[q][2].title = T3
        /\ pages[reqs[q][2].id].title = T3
        /\ pages[reqs[q][2].id].body = Content(q)

\* The page writes among the requests of the run of p, by position.
PageWrites(p) == {i \in 1 .. Len(reqs[p]) : IsWrite(reqs[p][i])}

\* C21: a run sends at most one page write.  A PUT is its second request,
\* straight after the one fetch of the run: a GET by id, or a title query
\* with one result, answered with the page the PUT is sent to.  A POST of a
\* run without a title to search (the space and newTitle reference) is its
\* first request; a POST of a run that searched a title is its second,
\* straight after the query that found nothing.
C21_OneWritePerPostPage ==
    \A p \in Procs :
        /\ Cardinality(PageWrites(p)) <= 1
        /\ \A i \in PageWrites(p) :
              LET r == reqs[p] IN
              IF r[i].method = "PUT"
              THEN /\ i = 2
                   /\ r[1].method = "GET" /\ r[1].target \in {"page", "search"}
                   /\ r[1].status = 200 /\ r[1].n = 1
                   /\ r[1].id = r[2].id
              ELSE IF loc[p].title = None
              THEN i = 1 /\ loc[p].pageId = 0
              ELSE /\ i = 2
                   /\ r[1].target = "search" /\ r[1].status = 200 /\ r[1].n = 0

\* One run created its page with its first request, no fetch before it;
\* the other edited a page with the PUT that followed its fetch.
C21_Witness ==
    \E p, q \in Procs :
        /\ Len(reqs[p]) >= 1 /\ reqs[p][1].method = "POST"
        /\ reqs[p][1].target = "page" /\ reqs[p][1].status = 200
        /\ loc[p].title = None /\ loc[p].outcome = "Created"
        /\ SentPut(q) /\ reqs[q][2].status = 200 /\ Len(reqs[q]) >= 3

\* C22: the same call made on both classes ends the same way (edited,
\* created, nothing done, refused or raised) after the same number of
\* requests, and request by request the method, the target, the page id,
\* the space and the title, the version and the ancestors submitted are the
\* same, and so is the status of the answer.
C22_ImplementationsAgree ==
    pc[1] = "posted" =>
        /\ loc[1].outcome = loc[2].outcome
        /\ Len(reqs[1]) = Len(reqs[2])
        /\ \A i \in 1 .. Len(reqs[1]) :
              /\ reqs[1][i].method = reqs[2][i].method
              /\ reqs[1][i].target = reqs[2][i].target
              /\ reqs[1][i].id = reqs[2][i].id
              /\ reqs[1][i].space = reqs[2][i].space
              /\ reqs[1][i].title = reqs[2][i].title
              /\ reqs[1][i].ver = reqs[2][i].ver
              /\ reqs[1][i].anc = reqs[2][i].anc
              /\ reqs[1][i].status = reqs[2][i].status

\* Both classes found the page under its title and edited it: version 3
\* after the 2 fetched, the parent 9 of the chain 7, 8, 9.
C22_Witness ==
    /\ pc[1] = "posted" /\ pc[2] = "posted"
    /\ loc[1].outcome = "Edited" /\ loc[2].outcome = "Edited"
    /\ Len(reqs[2]) = 2
    /\ reqs[2][1].target = "search"
    /\ reqs[2][2].method = "PUT" /\ reqs[2][2].ver = 3 /\ reqs[2][2].anc = <<9>>
    /\ reqs[1][2].anc = <<9>>

====
